---------------------------- MODULE Spec2Model ----------------------------
(***************************************************************************)
(* Model of src/app/api/extract-document/route.ts:                         *)
(*   - the Extraction Gateway: the POST route handler with its five-step   *)
(*     authentication-format probing of the upstream service;              *)
(*   - the Submission Orchestrator: the DocumentExtractor component with   *)
(*     its state (apiKey, files, isProcessing, results, progress) and the  *)
(*     handlers handleFileChange, removeFile and processFiles.             *)
(*                                                                         *)
(* An optional value (a field that may be undefined/null) is a sequence of *)
(* length 0 (absent) or 1 (present).                                       *)
(***************************************************************************)
EXTENDS Integers, Sequences, FiniteSets, TLC

VARIABLES
  apiKey,        \* useState("")            : the credential typed by the user
  files,         \* useState<File[]>([])    : the selected files (their names)
  isProcessing,  \* useState(false)
  results,       \* useState<ExtractionResult[]>([])
  progress,      \* useState(0)             : a rational, [num, den]
  alertMsg,      \* the modal alert() currently shown, "" when none
  batch,         \* what the timer callback reads of the closure of the running
                 \* processFiles call: files.length, and the number of entries
                 \* of its `results` that are not processing
  completed,     \* processFiles' local `completed`
  timer,         \* TRUE while the setInterval timer checkProgress is armed
  requests,      \* the gateway invocations: one POST handler run each
  download       \* the file last offered for download by downloadResults

vars == <<apiKey, files, isProcessing, results, progress, alertMsg,
          batch, completed, timer, requests, download>>

clientVars == <<apiKey, files, isProcessing, results, progress, alertMsg,
                batch, completed, timer, download>>

(***************************************************************************)
(* Bounds of the model.                                                    *)
(***************************************************************************)
\* the number of files the user can pick from, so the largest batch
MaxFiles == 2

\* the number of requests that reach the gateway in SpecGateway
MaxRequests == 2

(***************************************************************************)
(* Optional values.                                                        *)
(***************************************************************************)
None == <<>>

Some(x) == <<x>>

(***************************************************************************)
(* The upstream service, as the gateway sees it: a response is a status    *)
(* and a body; response.ok is status in 200..299; response.json() rejects  *)
(* when the body is not JSON.                                              *)
(***************************************************************************)
IsOk(status) == status >= 200 /\ status <= 299

(***************************************************************************)
(* The upstream payload: an untyped JSON document.  A field that the code  *)
(* reads is an optional value; a string "" and a number 0 are falsy.       *)
(* Confidences are in percent (0.9 is 90).  The value of a field that the  *)
(* code expects to be an array is either an array or a truthy value that   *)
(* Array.isArray rejects (a string, an object); an element of an array is  *)
(* an object or null.                                                      *)
(***************************************************************************)
Array(items) == [isArray |-> TRUE, items |-> items]

NotAnArray == [isArray |-> FALSE, items |-> <<>>]

\* value && Array.isArray(value)
IsArray(optArray) == optArray # None /\ optArray[1].isArray

Truthy(opt, falsy) == opt # None /\ opt[1] # falsy

\* a || b || ... || default over optional values: the first truthy operand
RECURSIVE FirstTruthy(_, _, _)
FirstTruthy(opts, falsy, default) ==
  IF opts = <<>> THEN default
  ELSE IF Truthy(Head(opts), falsy) THEN Head(opts)[1]
  ELSE FirstTruthy(Tail(opts), falsy, default)

\* Array.prototype.join(" ")
RECURSIVE Join(_)
Join(strs) ==
  IF strs = <<>> THEN ""
  ELSE IF Len(strs) = 1 THEN strs[1]
  ELSE strs[1] \o " " \o Join(Tail(strs))

\* String(object), what join() makes of an element that is an object
ObjectString == "[object Object]"

EmptyPrediction ==
  [ isNull |-> FALSE,
    extracted_text |-> None, ocr_text |-> None, text |-> None,
    text_segments |-> None, regions |-> None,
    entities |-> None, key_value_pairs |-> None, tables |-> None,
    bounding_boxes |-> None ]

EmptyDocument ==
  [ isNull |-> FALSE, predictions |-> None, text |-> None, ocr_result |-> None ]

NullDocument == [EmptyDocument EXCEPT !.isNull = TRUE]

\* an element of the array is null: reading one of its fields throws
AnyNull(items) == \E i \in 1..Len(items) : items[i].isNull

\* segment.text || segment
SegmentText(segment) ==
  IF segment.isString THEN segment.str
  ELSE IF Truthy(segment.text, "") THEN segment.text[1]
  ELSE ObjectString

\* region.text || region.value || ""
RegionText(region) == FirstTruthy(<<region.text, region.value>>, "", "")

ErrorExtractingText == "Error extracting text"

NoTextExtracted == "No text extracted"

\* TopLevelText reading ocr_result before text
TopLevelText_OcrFirst(result) ==
  IF Truthy(result.ocr_result, "") THEN result.ocr_result[1]
  ELSE IF Truthy(result.text, "") THEN result.text[1]
  ELSE NoTextExtracted

\* lines 208-218: the top-level fallbacks
TopLevelText(result) ==
  IF Truthy(result.text, "") THEN result.text[1]
  ELSE IF Truthy(result.ocr_result, "") THEN result.ocr_result[1]
  ELSE NoTextExtracted

extractTextFromResult(result) ==
  IF result.isNull THEN ErrorExtractingText          \* TypeError, caught
  ELSE IF result.predictions # None /\ Len(result.predictions[1]) > 0 THEN
    LET prediction == result.predictions[1][1] IN
    IF prediction.isNull THEN ErrorExtractingText    \* TypeError, caught
    ELSE IF Truthy(prediction.extracted_text, "") THEN prediction.extracted_text[1]
    ELSE IF Truthy(prediction.ocr_text, "") THEN prediction.ocr_text[1]
    ELSE IF Truthy(prediction.text, "") THEN prediction.text[1]
    ELSE IF IsArray(prediction.text_segments) THEN
      LET segments == prediction.text_segments[1].items IN
      IF AnyNull(segments)
      THEN ErrorExtractingText                       \* TypeError, caught
      ELSE Join([i \in 1..Len(segments) |-> SegmentText(segments[i])])
    ELSE IF IsArray(prediction.regions) THEN
      LET regions == prediction.regions[1].items IN
      IF AnyNull(regions)
      THEN ErrorExtractingText                       \* TypeError, caught
      ELSE Join([i \in 1..Len(regions) |-> RegionText(regions[i])])
    ELSE TopLevelText(result)
  ELSE TopLevelText(result)

\* EntityOf reading label, text and score before type, value and confidence
EntityOf_LabelFirst(entity) ==
  [ type       |-> FirstTruthy(<<entity.label, entity.type, entity.class>>, "", "Unknown"),
    value      |-> FirstTruthy(<<entity.text, entity.value, entity.content>>, "", ""),
    confidence |-> FirstTruthy(<<entity.score, entity.confidence, entity.probability>>, 0, 0) ]

\* lines 235-241
EntityOf(entity) ==
  [ type       |-> FirstTruthy(<<entity.type, entity.label, entity.class>>, "", "Unknown"),
    value      |-> FirstTruthy(<<entity.value, entity.text, entity.content>>, "", ""),
    confidence |-> FirstTruthy(<<entity.confidence, entity.score, entity.probability>>, 0, 0) ]

\* lines 246-252
EntityOfPair(pair) ==
  [ type       |-> FirstTruthy(<<pair.key>>, "", "Key-Value"),
    value      |-> FirstTruthy(<<pair.value>>, "", ""),
    confidence |-> FirstTruthy(<<pair.confidence>>, 0, 0) ]

\* lines 257-263; rows and data are the lengths of table.rows and table.data
EntityOfTable(table, index) ==
  [ type       |-> "Table",
    value      |-> "Table " \o ToString(index) \o " ("
                     \o ToString(FirstTruthy(<<table.rows, table.data>>, 0, 0)) \o " rows)",
    confidence |-> FirstTruthy(<<table.confidence>>, 0, 0) ]

\* lines 268-274
EntityOfBox(box, index) ==
  [ type       |-> FirstTruthy(<<box.label, box.class>>, "", "Detection"),
    value      |-> FirstTruthy(<<box.text, box.value>>, "", "Detection " \o ToString(index)),
    confidence |-> FirstTruthy(<<box.confidence, box.score>>, 0, 0) ]

\* the elements that forEach visits: none when the field is not an array
Items(optArray) == IF IsArray(optArray) THEN optArray[1].items ELSE <<>>

HasNullItem(prediction) ==
  \/ AnyNull(Items(prediction.entities))
  \/ AnyNull(Items(prediction.key_value_pairs))
  \/ AnyNull(Items(prediction.tables))
  \/ AnyNull(Items(prediction.bounding_boxes))

\* extractEntitiesFromResult with `else if` between the categories: only the
\* first category that is an array is emitted
extractEntitiesFromResult_FirstCategory(result) ==
  IF result.isNull THEN <<>>
  ELSE IF result.predictions # None /\ Len(result.predictions[1]) > 0 THEN
    LET prediction == result.predictions[1][1] IN
    IF prediction.isNull THEN <<>>
    ELSE IF HasNullItem(prediction) THEN <<>>
    ELSE IF IsArray(prediction.entities) THEN
      [i \in 1..Len(Items(prediction.entities)) |-> EntityOf(Items(prediction.entities)[i])]
    ELSE IF IsArray(prediction.key_value_pairs) THEN
      [i \in 1..Len(Items(prediction.key_value_pairs)) |->
         EntityOfPair(Items(prediction.key_value_pairs)[i])]
    ELSE IF IsArray(prediction.tables) THEN
      [i \in 1..Len(Items(prediction.tables)) |-> EntityOfTable(Items(prediction.tables)[i], i)]
    ELSE [i \in 1..Len(Items(prediction.bounding_boxes)) |->
            EntityOfBox(Items(prediction.bounding_boxes)[i], i)]
  ELSE <<>>

extractEntitiesFromResult(result) ==
  IF result.isNull THEN <<>>                         \* TypeError, caught
  ELSE IF result.predictions # None /\ Len(result.predictions[1]) > 0 THEN
    LET prediction == result.predictions[1][1] IN
    IF prediction.isNull THEN <<>>                   \* TypeError, caught
    ELSE IF HasNullItem(prediction) THEN <<>>        \* TypeError, caught
    ELSE
      [i \in 1..Len(Items(prediction.entities)) |-> EntityOf(Items(prediction.entities)[i])]
      \o [i \in 1..Len(Items(prediction.key_value_pairs)) |->
            EntityOfPair(Items(prediction.key_value_pairs)[i])]
      \o [i \in 1..Len(Items(prediction.tables)) |->
            EntityOfTable(Items(prediction.tables)[i], i)]
      \o [i \in 1..Len(Items(prediction.bounding_boxes)) |->
            EntityOfBox(Items(prediction.bounding_boxes)[i], i)]
  ELSE <<>>

(***************************************************************************)
(* The bodies the upstream service may send.  isJson: whether json() can   *)
(* parse the body; text: what text() reads; json: the parsed document.     *)
(***************************************************************************)
HelloDocument ==
  [EmptyDocument EXCEPT !.predictions =
     Some(<< [EmptyPrediction EXCEPT !.extracted_text = Some("hello")] >>)]

JsonBody(doc) == [isJson |-> TRUE, text |-> "{json}", json |-> doc]

TextBody(txt) == [isJson |-> FALSE, text |-> txt, json |-> NullDocument]

UpstreamResponses ==
  { [status |-> 200, body |-> JsonBody(HelloDocument)],
    [status |-> 200, body |-> JsonBody(NullDocument)],     \* the JSON text `null`
    [status |-> 204, body |-> TextBody("")],
    [status |-> 401, body |-> TextBody("Unauthorized")],
    [status |-> 403, body |-> TextBody("Forbidden")],
    [status |-> 500, body |-> TextBody("Internal Server Error")] }

(***************************************************************************)
(* The Extraction Gateway: POST, lines 3-175.                              *)
(*                                                                         *)
(* One invocation of the handler is a record:                              *)
(*   file, apiKey : formData.get("file"), formData.get("apiKey"), optional *)
(*   pc           : "received"  the request is there, the handler not run  *)
(*                  "awaiting"  suspended at `await fetch(...)` of a probe *)
(*                  "responded" the handler has returned its response      *)
(*   probes       : the upstream calls issued so far, in order             *)
(*   replies      : the upstream responses received so far, in order       *)
(*   response     : the NextResponse returned, once there is one           *)
(***************************************************************************)
NewInvocation(file, key) ==
  [ file |-> file, apiKey |-> key, pc |-> "received",
    probes |-> <<>>, replies |-> <<>>, response |-> None ]

\* The number of probe formats the handler knows.
NumFormats == 5

\* The upstream call of probe format k: lines 27-42, 46-61, 66-81, 86-97, 102-116.
ProbeRequest(k, fileName, key) ==
  CASE k = 1 -> [ format |-> 1, header |-> "apikey", headerValue |-> key,
                  query |-> "", bodyShape |-> "file_upload/images", file |-> fileName ]
    [] k = 2 -> [ format |-> 2, header |-> "Authorization", headerValue |-> "Bearer " \o key,
                  query |-> "", bodyShape |-> "file_upload/images", file |-> fileName ]
    [] k = 3 -> [ format |-> 3, header |-> "API-Key", headerValue |-> key,
                  query |-> "", bodyShape |-> "file_upload/images", file |-> fileName ]
    [] k = 4 -> [ format |-> 4, header |-> "apikey", headerValue |-> key,
                  query |-> "", bodyShape |-> "file/filename/filetype", file |-> fileName ]
    [] k = 5 -> [ format |-> 5, header |-> "", headerValue |-> "",
                  query |-> "apikey=" \o key, bodyShape |-> "file_upload/images", file |-> fileName ]

NoFileProvided == "No file provided"

NoApiKeyProvided == "No API key provided"

NetworkErrorOccurred == "Network error occurred"

InvalidApiKey == "Invalid API key or authentication failed. Please check your LandingAI API key."

AccessForbidden == "Access forbidden. Please check your API key permissions."

LandingAIError(status, errorText) ==
  "LandingAI API error (" \o ToString(status) \o "): " \o errorText

\* error.message of the SyntaxError that response.json() rejects with
JsonSyntaxError == "Unexpected end of JSON input"

FailedToProcess(message) == "Failed to process document: " \o message

\* NextResponse.json({ error }, { status })
ErrorResponse(status, error) ==
  [ status |-> status, error |-> Some(error), result |-> None ]

\* NextResponse.json(processedResult): lines 156-165 (fileSize and processedAt,
\* which no reader of the response uses, are left out)
SuccessResponse(doc, fileName) ==
  [ status |-> 200, error |-> None,
    result |-> Some([ data          |-> doc,
                      extractedText |-> extractTextFromResult(doc),
                      entities      |-> extractEntitiesFromResult(doc),
                      fileName      |-> fileName ]) ]

Return(g, response) == [g EXCEPT !.pc = "responded", !.response = Some(response)]

\* IssueProbe sending the request of format 3 again as the fourth call
IssueProbe_RepeatsThird(g, k) ==
  [g EXCEPT !.pc = "awaiting",
            !.probes = Append(@, ProbeRequest(IF k = 4 THEN 3 ELSE k, g.file[1], g.apiKey[1]))]

\* landingAIResponse = await fetch(<format k>)
IssueProbe(g, k) ==
  [g EXCEPT !.pc = "awaiting",
            !.probes = Append(@, ProbeRequest(k, g.file[1], g.apiKey[1]))]

\* POSTStart testing the credential against null only (`apiKey === null`)
POSTStart_NullCheckOnly(g) ==
  IF g.file = None THEN Return(g, ErrorResponse(400, NoFileProvided))
  ELSE IF g.apiKey = None THEN Return(g, ErrorResponse(400, NoApiKeyProvided))
  ELSE IssueProbe(g, 1)

\* lines 5-42: the validation of the form, then the first probe
POSTStart(g) ==
  IF g.file = None THEN Return(g, ErrorResponse(400, NoFileProvided))
  ELSE IF ~Truthy(g.apiKey, "") THEN Return(g, ErrorResponse(400, NoApiKeyProvided))
  ELSE IssueProbe(g, 1)

\* ProbeNext trying the next format after any failure (`!landingAIResponse.ok`)
ProbeNext_AnyFailure(status) == ~IsOk(status)

\* lines 44, 64, 84, 100: whether the next format is tried after this response
ProbeNext(status) == status = 401

\* lines 123-165: the response to the client, from the last upstream response
MapResponse(g, r) ==
  IF ~IsOk(r.status) THEN
    IF r.status = 401 THEN ErrorResponse(401, InvalidApiKey)
    ELSE IF r.status = 403 THEN ErrorResponse(403, AccessForbidden)
    ELSE ErrorResponse(500, LandingAIError(r.status, r.body.text))
  ELSE IF ~r.body.isJson THEN
    ErrorResponse(500, FailedToProcess(JsonSyntaxError))   \* json() rejects: line 166
  ELSE SuccessResponse(r.body.json, g.file[1])

\* the handler resumes with the upstream response r to its latest probe
POSTResume(g, r) ==
  LET k == Len(g.probes)
      h == [g EXCEPT !.replies = Append(@, r)] IN
  IF k < NumFormats /\ ProbeNext(r.status) THEN IssueProbe(h, k + 1)
  ELSE Return(h, MapResponse(h, r))

\* POSTFetchThrows with a try/catch around each probe: a failed probe falls
\* through to the next format
POSTFetchThrows_NextFormat(g) ==
  IF Len(g.probes) < NumFormats THEN IssueProbe(g, Len(g.probes) + 1)
  ELSE Return(g, ErrorResponse(500, NetworkErrorOccurred))

\* lines 118-121: the pending fetch rejects
POSTFetchThrows(g) == Return(g, ErrorResponse(500, NetworkErrorOccurred))

(***************************************************************************)
(* The gateway's steps, for the invocation at position i of requests.      *)
(***************************************************************************)
GatewayHandle(i) ==
  /\ requests[i].pc = "received"
  /\ requests' = [requests EXCEPT ![i] = POSTStart(@)]
  /\ UNCHANGED clientVars

UpstreamReply(i, r) ==
  /\ requests[i].pc = "awaiting"
  /\ requests' = [requests EXCEPT ![i] = POSTResume(@, r)]
  /\ UNCHANGED clientVars

UpstreamFails(i) ==
  /\ requests[i].pc = "awaiting"
  /\ requests' = [requests EXCEPT ![i] = POSTFetchThrows(@)]
  /\ UNCHANGED clientVars

(***************************************************************************)
(* The Submission Orchestrator: DocumentExtractor, lines 310-430.          *)
(***************************************************************************)
\* What the user may type as the credential; Trim is String.prototype.trim on these.
ApiKeys == {"", "  ", "sk-1"}

Trim(key) == IF key = "  " THEN "" ELSE key

\* The files the user may pick from, by name.
FileNames == <<"a.pdf", "b.png", "c.jpg", "d.tiff">>

RECURSIVE SortedList(_)
SortedList(S) ==
  IF S = {} THEN <<>>
  ELSE LET m == CHOOSE x \in S : \A y \in S : x <= y
       IN <<FileNames[m]>> \o SortedList(S \ {m})

\* The selections a file input can deliver: every sub-list of the first MaxFiles files.
FileLists == { SortedList(S) : S \in SUBSET (1..MaxFiles) }

Fraction(num, den) == [num |-> num, den |-> den]

Percent(n) == Fraction(n, 1)

\* an ExtractionResult, lines 301-308; the optional fields are optional values
ProcessingEntry(fileName) ==
  [ fileName |-> fileName, status |-> "processing",
    data |-> None, error |-> None, extractedText |-> None, entities |-> None ]

NoBatch == [nFiles |-> 0, nSettled |-> 0]

NotProcessing(rs) == { i \in 1..Len(rs) : rs[i].status # "processing" }

KeyAlert == "Please enter your LandingAI API key"

FilesAlert == "Please select files to process"

ProcessingFailed == "Processing failed"

\* Completed keeping the payload only
Completed_DataOnly(r, result) == [r EXCEPT !.status = "completed", !.data = Some(result.data)]

\* lines 373-379
Completed(r, result) ==
  [r EXCEPT !.status = "completed",
            !.data = Some(result.data),
            !.extractedText = Some(result.extractedText),
            !.entities = Some(result.entities)]

\* Failed dropping the message it is given
Failed_Generic(r, message) == [r EXCEPT !.status = "error", !.error = Some(ProcessingFailed)]

\* lines 386, 392
Failed(r, message) == [r EXCEPT !.status = "error", !.error = Some(message)]

\* IsTarget with `i >= index`: every entry from the index on is updated
IsTarget_FromIndex(i, index) == i >= index

\* IsTarget with `i !== index`: every entry but the one at the index is updated
IsTarget_Others(i, index) == i # index

\* `i === index`, the test of the three updaters: lines 372, 386, 392
IsTarget(i, index) == i = index

\* SetCompleted giving the result to the first entry that is still processing:
\* the results are filled in the order in which the calls settle
SetCompleted_FirstProcessing(prev, index, result) ==
  LET waiting == { i \in 1..Len(prev) : prev[i].status = "processing" } IN
  [i \in 1..Len(prev) |->
     IF i \in waiting /\ \A j \in waiting : i <= j THEN Completed(prev[i], result) ELSE prev[i]]

\* prev.map((r, i) => i === index ? { ...r, status: "completed", ... } : r)
SetCompleted(prev, index, result) ==
  [i \in 1..Len(prev) |-> IF IsTarget(i, index) THEN Completed(prev[i], result) ELSE prev[i]]

\* prev.map((r, i) => i === index ? { ...r, status: "error", error: message } : r)
SetFailed(prev, index, message) ==
  [i \in 1..Len(prev) |-> IF IsTarget(i, index) THEN Failed(prev[i], message) ELSE prev[i]]

\* the record of a request whose promise has settled: "settled" when the fetch
\* resolved and its response was consumed, "rejected" when the fetch rejected
Settled == [NewInvocation(None, None) EXCEPT !.pc = "settled"]

Rejected == [NewInvocation(None, None) EXCEPT !.pc = "rejected"]

IsSettled(request) == request.pc \in {"settled", "rejected"}

AllSettled(reqs) == \A j \in 1..Len(reqs) : IsSettled(reqs[j])

Init ==
  /\ apiKey = ""
  /\ files = <<>>
  /\ isProcessing = FALSE
  /\ results = <<>>
  /\ progress = Percent(0)
  /\ alertMsg = ""
  /\ batch = NoBatch
  /\ completed = 0
  /\ timer = FALSE
  /\ requests = <<>>
  /\ download = None

\* line 474: onChange of the credential input
SetApiKey(key) ==
  /\ alertMsg = ""
  /\ key # apiKey
  /\ apiKey' = key
  /\ UNCHANGED <<files, isProcessing, results, progress, alertMsg,
                 batch, completed, timer, requests, download>>

\* lines 317-323
handleFileChange(selectedFiles) ==
  /\ alertMsg = ""
  /\ files' = selectedFiles
  /\ results' = <<>>
  /\ UNCHANGED <<apiKey, isProcessing, progress, alertMsg,
                 batch, completed, timer, requests, download>>

\* lines 325-331
removeFile(index) ==
  LET newFiles == SubSeq(files, 1, index - 1) \o SubSeq(files, index + 1, Len(files)) IN
  /\ alertMsg = ""
  /\ index \in 1..Len(files)
  /\ files' = newFiles
  /\ results' = IF Len(newFiles) = 0 THEN <<>> ELSE results
  /\ UNCHANGED <<apiKey, isProcessing, progress, alertMsg,
                 batch, completed, timer, requests, download>>

\* processFiles testing the credential without trim() (`!apiKey`)
processFiles_NoTrim ==
  IF apiKey = "" THEN
    /\ alertMsg' = KeyAlert
    /\ UNCHANGED <<apiKey, files, isProcessing, results, progress,
                   batch, completed, timer, requests, download>>
  ELSE IF Len(files) = 0 THEN
    /\ alertMsg' = FilesAlert
    /\ UNCHANGED <<apiKey, files, isProcessing, results, progress,
                   batch, completed, timer, requests, download>>
  ELSE
    /\ isProcessing' = TRUE
    /\ progress' = Percent(0)
    /\ results' = [i \in 1..Len(files) |-> ProcessingEntry(files[i])]
    /\ requests' = [i \in 1..Len(files) |-> NewInvocation(Some(files[i]), Some(apiKey))]
    /\ batch' = [nFiles |-> Len(files), nSettled |-> Cardinality(NotProcessing(results))]
    /\ completed' = 0
    /\ timer' = TRUE
    /\ UNCHANGED <<apiKey, files, alertMsg, download>>

\* lines 333-409, up to the suspension at `await Promise.all(promises)`: the
\* two early returns, then the reset of the state, the dispatch of one request
\* per file (each map callback runs to its `await fetch`) and the arming of the timer
processFiles ==
  IF Trim(apiKey) = "" THEN
    /\ alertMsg' = KeyAlert
    /\ UNCHANGED <<apiKey, files, isProcessing, results, progress,
                   batch, completed, timer, requests, download>>
  ELSE IF Len(files) = 0 THEN
    /\ alertMsg' = FilesAlert
    /\ UNCHANGED <<apiKey, files, isProcessing, results, progress,
                   batch, completed, timer, requests, download>>
  ELSE
    /\ isProcessing' = TRUE
    /\ progress' = Percent(0)
    /\ results' = [i \in 1..Len(files) |-> ProcessingEntry(files[i])]
    /\ requests' = [i \in 1..Len(files) |-> NewInvocation(Some(files[i]), Some(apiKey))]
    /\ batch' = [nFiles |-> Len(files), nSettled |-> Cardinality(NotProcessing(results))]
    /\ completed' = 0
    /\ timer' = TRUE
    /\ UNCHANGED <<apiKey, files, alertMsg, download>>

\* lines 538-542: a click on the button, which is disabled while isProcessing.
\* (Its other two disabling conditions repeat the early returns of processFiles.)
ClickExtract ==
  /\ alertMsg = ""
  /\ ~isProcessing
  /\ processFiles

\* the user closes the modal alert()
DismissAlert ==
  /\ alertMsg # ""
  /\ alertMsg' = ""
  /\ UNCHANGED <<apiKey, files, isProcessing, results, progress,
                 batch, completed, timer, requests, download>>

\* AfterSettle with Promise.race in place of Promise.all: the batch ends with
\* the first call that settles
AfterSettle_Race(reqs) ==
  IF \E j \in 1..Len(reqs) : IsSettled(reqs[j]) THEN
    /\ timer' = FALSE
    /\ progress' = Percent(100)
    /\ isProcessing' = FALSE
    /\ batch' = NoBatch
    /\ completed' = 0
  ELSE UNCHANGED <<timer, progress, isProcessing, batch, completed>>

\* AfterSettle leaving the timer to clear itself: the batch ends only once the
\* polling callback has seen every file completed
AfterSettle_WaitsForTimer(reqs) ==
  IF AllSettled(reqs) /\ ~timer THEN
    /\ timer' = FALSE
    /\ progress' = Percent(100)
    /\ isProcessing' = FALSE
    /\ batch' = NoBatch
    /\ completed' = 0
  ELSE UNCHANGED <<timer, progress, isProcessing, batch, completed>>

\* lines 411-416: Promise.all resolves in the same task as the last per-file
\* promise, so the tail of processFiles runs with the last settlement; the
\* call's frame (`completed`, the closure) is then gone
AfterSettle(reqs) ==
  IF AllSettled(reqs) THEN
    /\ timer' = FALSE
    /\ progress' = Percent(100)
    /\ isProcessing' = FALSE
    /\ batch' = NoBatch
    /\ completed' = 0
  ELSE UNCHANGED <<timer, progress, isProcessing, batch, completed>>

\* Settle without the per-file try/catch: a failed call fails the whole batch,
\* every entry still processing is marked as failed and no other call is awaited
Settle_FailFast(index) ==
  LET response == requests[index].response[1]
      reqs == IF IsOk(response.status) THEN [requests EXCEPT ![index] = Settled]
              ELSE [i \in 1..Len(requests) |-> IF i = index THEN Settled ELSE Rejected]
      message == FirstTruthy(<<response.error>>, "", ProcessingFailed) IN
  /\ alertMsg = ""
  /\ requests[index].pc = "responded"
  /\ results' = IF IsOk(response.status)
                THEN [i \in 1..Len(results) |->
                        IF i = index THEN Completed(results[i], response.result[1])
                        ELSE results[i]]
                ELSE [i \in 1..Len(results) |->
                        IF results[i].status = "processing" THEN Failed(results[i], message)
                        ELSE results[i]]
  /\ requests' = reqs
  /\ AfterSettle(reqs)
  /\ UNCHANGED <<apiKey, files, alertMsg, download>>

\* lines 362-389: the fetch of file `index` resolves with the gateway's response
Settle(index) ==
  LET response == requests[index].response[1]
      reqs == [requests EXCEPT ![index] = Settled] IN
  /\ alertMsg = ""
  /\ requests[index].pc = "responded"
  /\ results' = IF IsOk(response.status)
                THEN SetCompleted(results, index, response.result[1])
                ELSE SetFailed(results, index,
                               FirstTruthy(<<response.error>>, "", ProcessingFailed))
  /\ requests' = reqs
  /\ AfterSettle(reqs)
  /\ UNCHANGED <<apiKey, files, alertMsg, download>>

\* FetchThrows with the message of the else branch in the catch
FetchThrows_ProcessingFailed(index) ==
  LET reqs == [requests EXCEPT ![index] = Rejected] IN
  /\ alertMsg = ""
  /\ requests[index].pc \in {"received", "responded"}
  /\ results' = SetFailed(results, index, ProcessingFailed)
  /\ requests' = reqs
  /\ AfterSettle(reqs)
  /\ UNCHANGED <<apiKey, files, alertMsg, download>>

\* lines 390-394: the fetch of file `index` rejects (the request never reaches
\* the gateway, or its response is lost), or `await response.json()` rejects
\* because the body that arrives cannot be read
FetchThrows(index) ==
  LET reqs == [requests EXCEPT ![index] = Rejected] IN
  /\ alertMsg = ""
  /\ requests[index].pc \in {"received", "responded"}
  /\ results' = SetFailed(results, index, NetworkErrorOccurred)
  /\ requests' = reqs
  /\ AfterSettle(reqs)
  /\ UNCHANGED <<apiKey, files, alertMsg, download>>

\* lines 399-409: the setInterval callback; `results` and `files` are the ones
\* of the render in which processFiles was called
checkProgress ==
  LET currentCompleted == batch.nSettled
      newCompleted == IF currentCompleted > completed THEN currentCompleted ELSE completed IN
  /\ alertMsg = ""
  /\ timer
  /\ completed' = newCompleted
  /\ progress' = IF newCompleted >= batch.nFiles THEN Percent(100)
                 ELSE IF currentCompleted > completed
                      THEN Fraction(newCompleted * 100, batch.nFiles)
                      ELSE progress
  /\ timer' = (newCompleted < batch.nFiles)
  /\ UNCHANGED <<apiKey, files, isProcessing, results, alertMsg, batch, requests, download>>

Next ==
  \/ \E key \in ApiKeys : SetApiKey(key)
  \/ \E selectedFiles \in FileLists : handleFileChange(selectedFiles)
  \/ \E index \in 1..Len(files) : removeFile(index)
  \/ ClickExtract
  \/ DismissAlert
  \/ \E i \in 1..Len(requests) : GatewayHandle(i)
  \/ \E i \in 1..Len(requests), r \in UpstreamResponses : UpstreamReply(i, r)
  \/ \E i \in 1..Len(requests) : UpstreamFails(i)
  \/ \E index \in 1..Len(requests) : Settle(index)
  \/ \E index \in 1..Len(requests) : FetchThrows(index)
  \/ checkProgress

Spec == Init /\ [][Next]_vars

(***************************************************************************)
(* The orchestrator with the gateway, under the scheduling the runtime     *)
(* gives: a request that reached the gateway is handled, a pending         *)
(* upstream call returns or throws, and a pending fetch of the             *)
(* orchestrator resolves or rejects.                                       *)
(***************************************************************************)
HandleAt(i) == i \in 1..Len(requests) /\ GatewayHandle(i)

UpstreamAt(i) ==
  /\ i \in 1..Len(requests)
  /\ \/ \E r \in UpstreamResponses : UpstreamReply(i, r)
     \/ UpstreamFails(i)

SettleAt(i) == i \in 1..Len(requests) /\ (Settle(i) \/ FetchThrows(i))

SpecFair ==
  /\ Spec
  /\ \A i \in 1..MaxFiles :
       WF_vars(HandleAt(i)) /\ WF_vars(UpstreamAt(i)) /\ WF_vars(SettleAt(i))

(***************************************************************************)
(* The gateway on its own: requests arrive from any HTTP client, with or   *)
(* without the two form fields.                                            *)
(***************************************************************************)
FormFiles == {None, Some(FileNames[1])}

FormKeys == {None} \cup { Some(key) : key \in ApiKeys }

Arrive(file, key) ==
  /\ Len(requests) < MaxRequests
  /\ requests' = Append(requests, NewInvocation(file, key))
  /\ UNCHANGED clientVars

NextGateway ==
  \/ \E file \in FormFiles, key \in FormKeys : Arrive(file, key)
  \/ \E i \in 1..Len(requests) : GatewayHandle(i)
  \/ \E i \in 1..Len(requests), r \in UpstreamResponses : UpstreamReply(i, r)
  \/ \E i \in 1..Len(requests) : UpstreamFails(i)

SpecGateway == Init /\ [][NextGateway]_vars

(***************************************************************************)
(* The export: downloadResults, lines 419-430.                             *)
(***************************************************************************)
\* IsExported keeping every entry that did not fail (`r.status !== "error"`)
IsExported_NotError(r) == r.status # "error"

\* line 420: the test of the filter
IsExported(r) == r.status = "completed"

\* line 420: results.filter(...)
completedResults(rs) == SelectSeq(rs, IsExported)

\* JSON.stringify of a parsed upstream document
JsonOfDocument(doc) == IF doc.isNull THEN "null" ELSE ToString(doc)

\* a property of a JSON object after the first one; JSON.stringify leaves out
\* a property whose value is undefined
JsonProperty(name, opt, text) == IF opt = None THEN "" ELSE "," \o name \o ":" \o text

\* JSON.stringify of one ExtractionResult
JsonOfEntry(r) ==
  "{fileName:" \o r.fileName \o ",status:" \o r.status
    \o JsonProperty("data", r.data, IF r.data = None THEN "" ELSE JsonOfDocument(r.data[1]))
    \o JsonProperty("error", r.error, IF r.error = None THEN "" ELSE r.error[1])
    \o JsonProperty("extractedText", r.extractedText,
                    IF r.extractedText = None THEN "" ELSE r.extractedText[1])
    \o JsonProperty("entities", r.entities, IF r.entities = None THEN "" ELSE ToString(r.entities[1]))
    \o "}"

\* the elements of a JSON array, separated by commas
RECURSIVE JsonElements(_)
JsonElements(rs) ==
  IF rs = <<>> THEN ""
  ELSE IF Len(rs) = 1 THEN JsonOfEntry(rs[1])
  ELSE JsonOfEntry(rs[1]) \o "," \o JsonElements(Tail(rs))

\* line 421: JSON.stringify(completedResults, null, 2)
JsonStringify(rs) == "[" \o JsonElements(rs) \o "]"

\* line 422; encodeURIComponent escapes the text reversibly, the text is kept as it is
DataUri(dataStr) == "data:application/json;charset=utf-8," \o dataStr

\* new Date().toISOString().split("T")[0], on the days the export may happen
Today == {"2026-01-01", "2026-01-02"}

\* line 424
ExportFileName(day) == "extraction-results-" \o day \o ".json"

\* lines 419-430: the link that is built and clicked
downloadResults(day) ==
  /\ download' = Some([ exported |-> completedResults(results),
                        href     |-> DataUri(JsonStringify(completedResults(results))),
                        download |-> ExportFileName(day) ])
  /\ UNCHANGED <<apiKey, files, isProcessing, results, progress, alertMsg,
                 batch, completed, timer, requests>>

(***************************************************************************)
(* The export on its own: downloadResults called in any state of results.  *)
(***************************************************************************)
\* the largest number of entries of results in SpecExport
MaxEntries == 3

\* the payloads a completed entry may carry
ExportDocuments == {HelloDocument, NullDocument}

\* the entries that the updaters of processFiles can make of a file
EntriesOf(fileName) ==
  { ProcessingEntry(fileName),
    Failed(ProcessingEntry(fileName), NetworkErrorOccurred),
    Failed(ProcessingEntry(fileName), InvalidApiKey) }
  \cup { Completed(ProcessingEntry(fileName), SuccessResponse(doc, fileName).result[1]) :
           doc \in ExportDocuments }

\* the values of results: entry i is the one of the i-th file
ResultLists ==
  UNION { { rs \in [1..n -> UNION { EntriesOf(FileNames[i]) : i \in 1..n }] :
              \A i \in 1..n : rs[i].fileName = FileNames[i] } : n \in 0..MaxEntries }

InitExport ==
  /\ apiKey = ""
  /\ files = <<>>
  /\ isProcessing = FALSE
  /\ results \in ResultLists
  /\ progress = Percent(0)
  /\ alertMsg = ""
  /\ batch = NoBatch
  /\ completed = 0
  /\ timer = FALSE
  /\ requests = <<>>
  /\ download = None

NextExport == \E day \in Today : downloadResults(day)

SpecExport == InitExport /\ [][NextExport]_vars

(***************************************************************************)
(* The normalisation on its own: one request to the gateway, to which the  *)
(* upstream service answers 200 with any JSON document of Payloads.        *)
(***************************************************************************)
\* the largest number of elements of an array of a payload
MaxItems == 2

\* the values of a text field: absent, the empty string, a text
OptTexts(txt) == {None, Some(""), Some(txt)}

\* the arrays of at most MaxItems elements of pool, beside an absent field and
\* a field that is not an array
ArrayFields(pool) ==
  {None, Some(NotAnArray)}
    \cup { Some(Array(items)) : items \in UNION { [1..n -> pool] : n \in 0..MaxItems } }

\* an element of text_segments: a string, or an object that may have a text
SegmentString(str) == [isNull |-> FALSE, isString |-> TRUE, str |-> str, text |-> None]

SegmentObject(text) == [isNull |-> FALSE, isString |-> FALSE, str |-> "", text |-> text]

NullSegment == [SegmentObject(None) EXCEPT !.isNull = TRUE]

Segments == { SegmentString("s1"), SegmentObject(Some("s2")), SegmentObject(None), NullSegment }

\* an element of regions
Region(text, value) == [isNull |-> FALSE, text |-> text, value |-> value]

Regions ==
  { Region(Some("r1"), Some("v1")), Region(None, Some("v2")),
    [Region(None, None) EXCEPT !.isNull = TRUE] }

\* an element of entities
EmptyEntity ==
  [ isNull |-> FALSE, type |-> None, label |-> None, class |-> None,
    value |-> None, text |-> None, content |-> None,
    confidence |-> None, score |-> None, probability |-> None ]

NullEntity == [EmptyEntity EXCEPT !.isNull = TRUE]

EntityElements ==
  { [EmptyEntity EXCEPT !.type = t, !.label = l, !.class = c,
                        !.value = v, !.text = x, !.content = n,
                        !.confidence = f, !.score = s, !.probability = p] :
      t \in OptTexts("DATE"), l \in {None, Some("NAME")}, c \in {None, Some("person")},
      v \in {None, Some("1 May")}, x \in OptTexts("Jane"), n \in {None, Some("Doe")},
      f \in {None, Some(80)}, s \in {None, Some(0), Some(90)}, p \in {None, Some(70)} }

\* an element of key_value_pairs
Pair(key, value, confidence) ==
  [isNull |-> FALSE, key |-> key, value |-> value, confidence |-> confidence]

\* an element of tables; rows and data are the lengths of its rows and data
Table(rows, data, confidence) ==
  [isNull |-> FALSE, rows |-> rows, data |-> data, confidence |-> confidence]

\* an element of bounding_boxes
Box(label, text, score) ==
  [ isNull |-> FALSE, label |-> label, class |-> None, text |-> text, value |-> None,
    confidence |-> None, score |-> score ]

NullPrediction == [EmptyPrediction EXCEPT !.isNull = TRUE]

HelloPrediction == [EmptyPrediction EXCEPT !.extracted_text = Some("hello")]

\* the predictions that differ in the fields extractTextFromResult reads: the
\* regions vary where text_segments is not an array
TextPredictions ==
  { [EmptyPrediction EXCEPT !.extracted_text = e, !.ocr_text = o, !.text = t,
                            !.text_segments = s,
                            !.regions = Some(Array(<<Region(Some("r1"), None)>>))] :
      e \in OptTexts("E"), o \in OptTexts("O"), t \in {None, Some("T")},
      s \in ArrayFields(Segments) }
  \cup
  { [EmptyPrediction EXCEPT !.extracted_text = e, !.ocr_text = o, !.text = t,
                            !.text_segments = s, !.regions = r] :
      e \in OptTexts("E"), o \in OptTexts("O"), t \in {None, Some("T")},
      s \in {None, Some(NotAnArray)}, r \in ArrayFields(Regions) }

\* the predictions with one element of entities
EntityPredictions ==
  { [EmptyPrediction EXCEPT !.entities = Some(Array(<<e>>))] : e \in EntityElements }

\* the predictions that differ in the four arrays extractEntitiesFromResult reads
CategoryPredictions ==
  { [EmptyPrediction EXCEPT !.entities = e, !.key_value_pairs = k,
                            !.tables = t, !.bounding_boxes = b] :
      e \in ArrayFields({ [EmptyEntity EXCEPT !.label = Some("NAME"), !.text = Some("Jane")],
                          [EmptyEntity EXCEPT !.class = Some("person")],
                          NullEntity }),
      k \in ArrayFields({ Pair(Some("total"), Some("12"), Some(50)) }),
      t \in ArrayFields({ Table(None, Some(2), Some(60)) }),
      b \in ArrayFields({ Box(Some("logo"), None, Some(40)) }) }

\* the values of the field predictions other than one prediction of the above
PredictionLists ==
  { None, Some(<<>>), Some(<<EmptyPrediction>>), Some(<<NullPrediction>>),
    Some(<<HelloPrediction, EmptyPrediction>>), Some(<<EmptyPrediction, HelloPrediction>>) }

Payloads ==
  { [EmptyDocument EXCEPT !.predictions = Some(<<p>>), !.text = Some("top")] :
      p \in TextPredictions \cup EntityPredictions \cup CategoryPredictions }
  \cup { [EmptyDocument EXCEPT !.predictions = ps, !.text = t, !.ocr_result = o] :
           ps \in PredictionLists, t \in OptTexts("top"), o \in OptTexts("ocr") }
  \cup { NullDocument }

\* the request whose upstream answer is normalised
ArrivePayloadRequest ==
  /\ requests = <<>>
  /\ requests' = <<NewInvocation(Some(FileNames[1]), Some("sk-1"))>>
  /\ UNCHANGED clientVars

NextPayload ==
  \/ ArrivePayloadRequest
  \/ \E i \in 1..Len(requests) : GatewayHandle(i)
  \/ \E i \in 1..Len(requests), doc \in Payloads :
       UpstreamReply(i, [status |-> 200, body |-> JsonBody(doc)])

SpecPayload == Init /\ [][NextPayload]_vars

(***************************************************************************)
(* Properties of the gateway.                                              *)
(***************************************************************************)
\* the handler runs that have started
Started == { i \in 1..Len(requests) : requests[i].pc \in {"awaiting", "responded"} }

\* every probe of the invocation has been answered by the upstream service
AllAnswered(g) == Len(g.probes) >= 1 /\ Len(g.replies) = Len(g.probes)

\* C1: in one invocation of POST, probe step k+1 is issued only if the response
\* to step k had status exactly 401; after a response with any other status no
\* further upstream call is made in that invocation.
C1_ProbeOnlyAfter401 ==
  \A i \in Started :
    LET g == requests[i] IN
    /\ Len(g.replies) <= Len(g.probes)
    /\ \A k \in 1..Len(g.probes) : k > 1 => (k - 1 <= Len(g.replies) /\ g.replies[k - 1].status = 401)
    /\ \A k \in 1..Len(g.replies) :
         g.replies[k].status # 401 => (Len(g.probes) = k /\ g.pc = "responded")

\* steps 1 and 2 answered 401, step 3 answered 403: the run ended after 3 calls
C1_Witness ==
  \E i \in Started :
    /\ requests[i].pc = "responded"
    /\ Len(requests[i].probes) = 3
    /\ Len(requests[i].replies) = 3
    /\ requests[i].replies[2].status = 401
    /\ requests[i].replies[3].status = 403

\* the expected response to the caller, by the last upstream response r
ExpectedByStatus(g, r) ==
  IF r.status = 401 THEN g.response[1] = ErrorResponse(401, InvalidApiKey)
  ELSE IF r.status = 403 THEN g.response[1] = ErrorResponse(403, AccessForbidden)
  ELSE IF ~IsOk(r.status) THEN
    /\ g.response[1].status = 500
    /\ g.response[1].error = Some(LandingAIError(r.status, r.body.text))
  ELSE
    /\ g.response[1].status = 200
    /\ g.response[1].error = None
    /\ g.response[1].result # None

\* C7: the gateway's response is determined by the status of the last upstream
\* response received: 401 gives 401 with the invalid-credential message, 403
\* gives 403 with the forbidden message, any other non-2xx gives 500 with the
\* upstream status and body text, and a 2xx gives a success response.
C7_ResponseByLastStatus ==
  \A i \in Started :
    LET g == requests[i] IN
    (g.pc = "responded" /\ AllAnswered(g)) => ExpectedByStatus(g, g.replies[Len(g.replies)])

\* C8: if the upstream call of a probe step fails at the network level, the
\* gateway makes no further upstream call in that invocation and responds 500
\* 'Network error occurred', whatever the earlier steps returned.
C8_NetworkFailureAborts ==
  \A i \in Started :
    LET g == requests[i] IN
    /\ Len(g.probes) <= Len(g.replies) + 1
    /\ Len(g.replies) < Len(g.probes) =>
         \/ g.pc = "awaiting"
         \/ g.pc = "responded" /\ g.response = Some(ErrorResponse(500, NetworkErrorOccurred))

\* steps 1 and 2 answered 401 and the fetch of step 3 rejected
C8_Witness ==
  \E i \in Started :
    /\ requests[i].pc = "responded"
    /\ Len(requests[i].probes) = 3
    /\ Len(requests[i].replies) = 2
    /\ requests[i].response = Some(ErrorResponse(500, NetworkErrorOccurred))

\* the request lacks the file or the credential
LacksInput(g) == g.file = None \/ g.apiKey = None \/ g.apiKey = Some("")

\* C9: a request that lacks the file or lacks the credential is answered with
\* a 400 client error, and no upstream call is made for it.
C9_MissingInputRejected ==
  \A i \in Started :
    LET g == requests[i] IN
    LacksInput(g) =>
      /\ g.pc = "responded"
      /\ g.response # None
      /\ g.response[1].status = 400
      /\ g.probes = <<>>

\* one request without the file and one without the credential, both answered
C9_Witness ==
  \E i, j \in Started :
    /\ requests[i].file = None /\ requests[i].apiKey # None
    /\ requests[i].response = Some(ErrorResponse(400, NoFileProvided))
    /\ requests[j].file # None /\ requests[j].apiKey = None
    /\ requests[j].response = Some(ErrorResponse(400, NoApiKeyProvided))

(***************************************************************************)
(* Properties of the orchestrator.                                         *)
(***************************************************************************)
\* the positions that results has before and after a step
Kept == (1..Len(results)) \cap (1..Len(results'))

\* the step in which processFiles creates the entries of a new batch
Dispatches == ~isProcessing /\ isProcessing'

\* the step settles the call of file i: its fetch resolves or rejects
Settles(i) ==
  /\ i \in 1..Len(requests) /\ i \in 1..Len(requests')
  /\ ~IsSettled(requests[i])
  /\ IsSettled(requests'[i])

\* every probe of the invocation was answered, each time with 401
AllAnswered401(g) ==
  AllAnswered(g) /\ \A k \in 1..Len(g.replies) : g.replies[k].status = 401

C2_GatewayPart ==
  \A i \in Started :
    LET g == requests[i] IN
    (g.pc = "responded" /\ AllAnswered401(g)) =>
      /\ Len(g.probes) = 5
      /\ g.response = Some(ErrorResponse(401, InvalidApiKey))

C2_OrchestratorPart ==
  \A i \in Started :
    (/\ requests[i].pc = "responded"
     /\ AllAnswered401(requests[i])
     /\ Settles(i)
     /\ requests'[i].pc = "settled") =>
      \A j \in 1..Len(results') :
        j = i => /\ results'[j].status = "error"
                 /\ results'[j].error = Some(InvalidApiKey)

\* C2: if the upstream service answers 401 to every probe attempt, the gateway
\* has made exactly 5 upstream calls and responds 401 with the invalid-API-key
\* message, and when the orchestrator receives that response the entry at that
\* file's index gets status error and carries that message.
C2_AllUnauthorized == []C2_GatewayPart /\ [][C2_OrchestratorPart]_vars

\* the entry of a file whose call went through five 401 answers, after the
\* orchestrator consumed the gateway's response
C2_Witness ==
  \E i \in 1..Len(requests) :
    /\ requests[i].pc = "settled"
    /\ i \in 1..Len(results)
    /\ results[i].status = "error"
    /\ results[i].error = Some(InvalidApiKey)

\* C3: after processFiles created it, an entry's status changes at most once,
\* from processing to completed or from processing to error; a completed or
\* error entry never changes status again within the batch, and entries are
\* only ever created by processFiles, in status processing.
C3_StatusChangesOnce ==
  [][ /\ \A i \in Kept :
           results'[i].status # results[i].status =>
             \/ Dispatches
             \/ /\ results[i].status = "processing"
                /\ results'[i].status \in {"completed", "error"}
      /\ Len(results') > Len(results) => Dispatches
      /\ Dispatches => \A i \in 1..Len(results') : results'[i].status = "processing"
    ]_vars

\* a batch of two in flight: one entry already terminal, its sibling not yet
C3_Witness ==
  /\ isProcessing
  /\ Len(results) = 2
  /\ results[1].status = "completed"
  /\ results[2].status = "processing"

\* C4: when the call of the file at index i settles, the update of results
\* changes only the entry at index i: the length of results and every entry at
\* an index j # i are unchanged, for every order in which the calls settle.
C4_OnlyOwnEntry ==
  [][ \A i \in 1..Len(requests) :
        Settles(i) =>
          /\ Len(results') = Len(results)
          /\ \A j \in 1..Len(results) : j # i => results'[j] = results[j]
    ]_vars

\* the second file's call settled before the first one's
C4_Witness ==
  /\ Len(results) = 2
  /\ results[1].status = "processing"
  /\ results[2].status = "error"
  /\ IsSettled(requests[2])

\* C5: every file of a batch gets its own call; the settlement of one call,
\* failed or not, leaves every sibling call as it is; a call whose own gateway
\* response is 2xx completes its entry; and an entry becomes error only by the
\* failure of its own call (a non-2xx response, or a rejected fetch).
C5_FailureIsolated ==
  [][ /\ Dispatches =>
           /\ Len(requests') = Len(files)
           /\ \A i \in 1..Len(files) : requests'[i] = NewInvocation(Some(files[i]), Some(apiKey))
      /\ \A i \in 1..Len(requests) :
           Settles(i) => \A j \in 1..Len(requests) : j # i => requests'[j] = requests[j]
      /\ \A j \in Kept :
           (/\ Settles(j)
            /\ requests'[j].pc = "settled"
            /\ IsOk(requests[j].response[1].status)) => results'[j].status = "completed"
      /\ \A j \in Kept :
           (results[j].status # "error" /\ results'[j].status = "error") =>
             /\ Settles(j)
             /\ \/ requests'[j].pc = "rejected"
                \/ ~IsOk(requests[j].response[1].status)
    ]_vars

\* a batch of two in which the first file failed and the second completed
C5_Witness ==
  /\ Len(results) = 2
  /\ results[1].status = "error"
  /\ results[2].status = "completed"

\* C6: from the dispatch of a batch on, every dispatched file has exactly one
\* entry in results, also while the user selects or removes files with calls in
\* flight, and the entry records the outcome of the call once it has settled.
C6_EntryPerDispatchedFile ==
  isProcessing =>
    /\ Len(results) = Len(requests)
    /\ \A i \in 1..Len(requests) :
         IsSettled(requests[i]) <=> results[i].status # "processing"

\* C10: processFiles invoked with a blank credential or with no file issues no
\* gateway request and leaves results, isProcessing and progress unchanged: it
\* only shows its alert.
C10_RejectedBeforeDispatch ==
  [][ /\ (alertMsg = "" /\ alertMsg' # "") =>
           /\ Trim(apiKey) = "" \/ Len(files) = 0
           /\ UNCHANGED <<results, isProcessing, progress, requests>>
      /\ (~isProcessing /\ (Trim(apiKey) = "" \/ Len(files) = 0)) =>
           UNCHANGED <<isProcessing, progress, requests>>
    ]_vars

\* processFiles was called with a whitespace-only credential, files selected
\* and the results of an earlier batch on display
C10_Witness ==
  /\ alertMsg = KeyAlert
  /\ apiKey = "  "
  /\ Len(files) > 0
  /\ Len(results) > 0

(***************************************************************************)
(* Properties of the export.                                               *)
(***************************************************************************)
\* the positions of the completed entries of rs
CompletedAt(rs) == { i \in 1..Len(rs) : rs[i].status = "completed" }

\* the k-th smallest element of a set of positions
NthOf(S, k) == CHOOSE i \in S : Cardinality({ j \in S : j < i }) = k - 1

\* C11: in any state of results, downloadResults serialises exactly the
\* completed entries, in their original order, and no entry that is in error
\* or processing; with no completed entry the document is the empty array.
C11_ExportsCompletedOnly ==
  download # None =>
    LET out == download[1].exported IN
    /\ Len(out) = Cardinality(CompletedAt(results))
    /\ \A k \in 1..Len(out) : out[k] = results[NthOf(CompletedAt(results), k)]
    /\ \A k \in 1..Len(out) : out[k].status \notin {"error", "processing"}
    /\ download[1].href = DataUri(JsonStringify(out))
    /\ CompletedAt(results) = {} => download[1].href = DataUri("[]")

\* an export of three entries of which the first and the last are completed,
\* with a failed one between them
C11_Witness ==
  /\ download # None
  /\ Len(results) = 3
  /\ results[1].status = "completed"
  /\ results[2].status = "error"
  /\ results[3].status = "completed"
  /\ Len(download[1].exported) = 2
  /\ download[1].exported[2].fileName = FileNames[3]

(***************************************************************************)
(* Properties of the normalisation.                                        *)
(***************************************************************************)
\* the last upstream response that the invocation received
LastReply(g) == g.replies[Len(g.replies)]

C12_GatewayPart ==
  \A i \in Started :
    LET g == requests[i] IN
    (g.pc = "responded" /\ AllAnswered(g) /\ IsOk(LastReply(g).status)) =>
      /\ IsOk(g.response[1].status)
      /\ g.response[1].error = None
      /\ g.response[1].result # None

C12_OrchestratorPart ==
  \A i \in Started \cap Kept :
    (/\ requests[i].pc = "responded"
     /\ AllAnswered(requests[i])
     /\ IsOk(LastReply(requests[i]).status)
     /\ Settles(i)
     /\ requests'[i].pc = "settled") => results'[i].status = "completed"

\* C12: whenever the last upstream response is 2xx the gateway returns a
\* success response and the entry of the file becomes completed, whatever the
\* body of that response is: a body that cannot be normalised gives a fallback
\* text and no entities, never an error.
C12_Always2xxCompletes == []C12_GatewayPart /\ [][C12_OrchestratorPart]_vars

(***************************************************************************)
(* Properties of the entries of results.                                   *)
(***************************************************************************)
\* C13: in every reachable state, for every entry of results, the error
\* message is present exactly when the status is error, and the raw payload,
\* the extracted text and the entities are present exactly when the status is
\* completed; a processing entry has none of the four.
C13_FieldsByStatus ==
  \A i \in 1..Len(results) :
    LET r == results[i] IN
    /\ r.status \in {"processing", "completed", "error"}
    /\ r.error # None <=> r.status = "error"
    /\ r.data # None <=> r.status = "completed"
    /\ r.extractedText # None <=> r.status = "completed"
    /\ r.entities # None <=> r.status = "completed"

\* a completed entry, whose payload was the JSON null, beside a failed one
C13_Witness ==
  /\ Len(results) = 2
  /\ results[1].status = "completed"
  /\ results[1].data = Some(NullDocument)
  /\ results[1].extractedText = Some(ErrorExtractingText)
  /\ results[2].status = "error"
  /\ results[2].error = Some(LandingAIError(500, "Internal Server Error"))

\* the invocations whose upstream answer was normalised into a success response
Normalised ==
  { i \in Started : /\ requests[i].pc = "responded"
                    /\ AllAnswered(requests[i])
                    /\ requests[i].response[1].result # None }

\* the document that was normalised, and what the two helpers made of it
PayloadOf(i) == LastReply(requests[i]).body.json

TextOf(i) == requests[i].response[1].result[1].extractedText

EntitiesOf(i) == requests[i].response[1].result[1].entities

\* the payload has a non-empty predictions array
HasPredictions(doc) ==
  ~doc.isNull /\ doc.predictions # None /\ Len(doc.predictions[1]) > 0

\* the texts of the elements of an array field, joined by spaces
JoinedSegments(field) == Join([k \in 1..Len(Items(field)) |-> SegmentText(Items(field)[k])])

JoinedRegions(field) == Join([k \in 1..Len(Items(field)) |-> RegionText(Items(field)[k])])

\* the first element of a list of optional values that is there, else the default
RECURSIVE FirstSome(_, _)
FirstSome(opts, default) ==
  IF opts = <<>> THEN default
  ELSE IF Head(opts) # None THEN Head(opts)[1]
  ELSE FirstSome(Tail(opts), default)

\* C14 as stated: with a non-empty predictions array the text is the first
\* present field of predictions[0] among extracted_text, ocr_text, text, the
\* space-joined text_segments and the space-joined regions; without predictions
\* it is the top-level text, else the top-level ocr_result, else 'No text extracted'.
C14_FirstPresentField ==
  \A i \in Normalised :
    LET doc == PayloadOf(i) IN
    IF HasPredictions(doc) THEN
      LET p == doc.predictions[1][1] IN
      (\E f \in {p.extracted_text, p.ocr_text, p.text} : f # None)
         \/ p.text_segments # None \/ p.regions # None
      => TextOf(i) =
           IF p.extracted_text # None THEN p.extracted_text[1]
           ELSE IF p.ocr_text # None THEN p.ocr_text[1]
           ELSE IF p.text # None THEN p.text[1]
           ELSE IF p.text_segments # None THEN JoinedSegments(p.text_segments)
           ELSE JoinedRegions(p.regions)
    ELSE TextOf(i) = FirstSome(<<doc.text, doc.ocr_result>>, NoTextExtracted)

\* a present text that is not the empty string: what `if (field)` lets through
NonEmpty(opt) == IF opt # None /\ opt[1] # "" THEN opt ELSE None

\* C14 amended: with a non-empty predictions array whose first element is not
\* null, the text is the first of: the non-empty extracted_text, ocr_text and
\* text, the space-joined text_segments if that is an array, the space-joined
\* regions if that is an array; if none of them applies or there are no
\* predictions it is the non-empty top-level text, else the non-empty top-level
\* ocr_result, else 'No text extracted'; a payload, a first prediction or an
\* element of the joined array that is null gives 'Error extracting text'.
C14_FirstUsableField ==
  \A i \in Normalised :
    LET doc == PayloadOf(i)
        p == doc.predictions[1][1]
        topLevel == FirstSome(<<NonEmpty(doc.text), NonEmpty(doc.ocr_result)>>, NoTextExtracted)
        joined == IF IsArray(p.text_segments) THEN p.text_segments ELSE p.regions
        fromPrediction ==
          FirstSome(<< NonEmpty(p.extracted_text), NonEmpty(p.ocr_text), NonEmpty(p.text),
                       IF IsArray(p.text_segments) THEN Some(JoinedSegments(p.text_segments)) ELSE None,
                       IF IsArray(p.regions) THEN Some(JoinedRegions(p.regions)) ELSE None >>,
                    topLevel)
    IN
    TextOf(i) =
      IF doc.isNull THEN ErrorExtractingText
      ELSE IF ~HasPredictions(doc) THEN topLevel
      ELSE IF p.isNull THEN ErrorExtractingText
      ELSE IF /\ \A f \in {p.extracted_text, p.ocr_text, p.text} : NonEmpty(f) = None
              /\ AnyNull(Items(joined))
           THEN ErrorExtractingText
      ELSE fromPrediction

\* an empty extracted_text and an absent ocr_text were passed over for text
C14_Witness ==
  \E i \in Normalised :
    /\ HasPredictions(PayloadOf(i))
    /\ PayloadOf(i).predictions[1][1].extracted_text = Some("")
    /\ PayloadOf(i).predictions[1][1].ocr_text = None
    /\ PayloadOf(i).predictions[1][1].text = Some("T")
    /\ IsArray(PayloadOf(i).predictions[1][1].text_segments)
    /\ TextOf(i) = "T"

\* what the claim expects of the four arrays of a prediction: one entity per
\* element, category after category, each category in its own order
EntitiesInOrder(p, out) ==
  LET es == Items(p.entities)
      ks == Items(p.key_value_pairs)
      ts == Items(p.tables)
      bs == Items(p.bounding_boxes) IN
  /\ Len(out) = Len(es) + Len(ks) + Len(ts) + Len(bs)
  /\ \A k \in 1..Len(es) : out[k] = EntityOf(es[k])
  /\ \A k \in 1..Len(ks) : out[Len(es) + k] = EntityOfPair(ks[k])
  /\ \A k \in 1..Len(ts) : out[Len(es) + Len(ks) + k] = EntityOfTable(ts[k], k)
  /\ \A k \in 1..Len(bs) : out[Len(es) + Len(ks) + Len(ts) + k] = EntityOfBox(bs[k], k)

\* C15 as stated: with non-empty predictions the entities are the concatenation
\* of one entity per element of entities, of key_value_pairs, of tables and of
\* bounding_boxes of predictions[0], in this order (as many as the categories
\* that are arrays have elements); without predictions there are none.
C15_Additive ==
  \A i \in Normalised :
    IF HasPredictions(PayloadOf(i))
    THEN EntitiesInOrder(PayloadOf(i).predictions[1][1], EntitiesOf(i))
    ELSE EntitiesOf(i) = <<>>

\* C15 amended: as stated when no element of the four arrays is null; when
\* one is (its fields cannot be read), the entities are the empty sequence.
C15_AdditiveUnlessNull ==
  \A i \in Normalised :
    IF HasPredictions(PayloadOf(i)) /\ ~HasNullItem(PayloadOf(i).predictions[1][1])
    THEN EntitiesInOrder(PayloadOf(i).predictions[1][1], EntitiesOf(i))
    ELSE EntitiesOf(i) = <<>>

\* two entities, a pair, a table and a box gave five entities; key_value_pairs
\* comes second
C15_Witness ==
  \E i \in Normalised :
    /\ HasPredictions(PayloadOf(i))
    /\ Len(Items(PayloadOf(i).predictions[1][1].entities)) = 2
    /\ Len(Items(PayloadOf(i).predictions[1][1].key_value_pairs)) = 1
    /\ Len(Items(PayloadOf(i).predictions[1][1].tables)) = 1
    /\ Len(Items(PayloadOf(i).predictions[1][1].bounding_boxes)) = 1
    /\ Len(EntitiesOf(i)) = 5
    /\ EntitiesOf(i)[1].type = "NAME"
    /\ EntitiesOf(i)[2].type = "person"
    /\ EntitiesOf(i)[3].type = "total"
    /\ EntitiesOf(i)[4].type = "Table"

\* the elements of entities that were mapped, with the entity made of each
MappedEntities(i) ==
  IF HasPredictions(PayloadOf(i)) /\ ~HasNullItem(PayloadOf(i).predictions[1][1])
  THEN 1..Len(Items(PayloadOf(i).predictions[1][1].entities))
  ELSE {}

ElementOf(i, k) == Items(PayloadOf(i).predictions[1][1].entities)[k]

\* a present number that is not 0: what `||` lets through
NonZero(opt) == IF opt # None /\ opt[1] # 0 THEN opt ELSE None

\* C16 as stated: for every element of predictions[0].entities the entity has
\* type = label if present, else class, else 'Unknown'; value = text if
\* present, else content, else the empty string; confidence = score if
\* present, else probability, else 0.
C16_LabelTextScore ==
  \A i \in Normalised : \A k \in MappedEntities(i) :
    LET e == ElementOf(i, k) IN
    /\ EntitiesOf(i)[k].type = FirstSome(<<e.label, e.class>>, "Unknown")
    /\ EntitiesOf(i)[k].value = FirstSome(<<e.text, e.content>>, "")
    /\ EntitiesOf(i)[k].confidence = FirstSome(<<e.score, e.probability>>, 0)

\* C16 amended: type = the first non-empty of the element's type, label and
\* class, else 'Unknown'; value = the first non-empty of its value, text and
\* content, else the empty string; confidence = the first non-zero of its
\* confidence, score and probability, else 0.
C16_TypeValueConfidenceFirst ==
  \A i \in Normalised : \A k \in MappedEntities(i) :
    LET e == ElementOf(i, k) IN
    /\ EntitiesOf(i)[k].type =
         FirstSome(<<NonEmpty(e.type), NonEmpty(e.label), NonEmpty(e.class)>>, "Unknown")
    /\ EntitiesOf(i)[k].value =
         FirstSome(<<NonEmpty(e.value), NonEmpty(e.text), NonEmpty(e.content)>>, "")
    /\ EntitiesOf(i)[k].confidence =
         FirstSome(<<NonZero(e.confidence), NonZero(e.score), NonZero(e.probability)>>, 0)

\* an element with both a type and a label, a text and no value, and a zero
\* score beside a probability
C16_Witness ==
  \E i \in Normalised :
    /\ MappedEntities(i) = {1}
    /\ ElementOf(i, 1).type = Some("DATE")
    /\ ElementOf(i, 1).label = Some("NAME")
    /\ ElementOf(i, 1).value = None
    /\ ElementOf(i, 1).text = Some("Jane")
    /\ ElementOf(i, 1).confidence = None
    /\ ElementOf(i, 1).score = Some(0)
    /\ ElementOf(i, 1).probability = Some(70)
    /\ EntitiesOf(i)[1] = [type |-> "DATE", value |-> "Jane", confidence |-> 70]

(***************************************************************************)
(* Properties of the probing.                                              *)
(***************************************************************************)
\* the positions of the responses of the invocation whose status is not 401
Non401(g) == { k \in 1..Len(g.replies) : g.replies[k].status # 401 }

\* where the probing is to stop: the position of the first response that is
\* not 401, the number of formats when every response is 401
StopsAt(g) ==
  IF Non401(g) = {} THEN NumFormats
  ELSE CHOOSE k \in Non401(g) : \A j \in Non401(g) : k <= j

\* C17: with no network failure, an invocation with valid inputs makes as many
\* upstream calls as the position of the first response that is not 401, or 5
\* when all are 401; and when steps 1..k-1 returned 401 and step k a 2xx, the
\* gateway returns success after exactly k calls.
C17_CallsUntilFirstNon401 ==
  \A i \in Started :
    LET g == requests[i] IN
    (g.pc = "responded" /\ AllAnswered(g)) =>
      /\ Len(g.probes) = StopsAt(g)
      /\ IsOk(LastReply(g).status) =>
           /\ \A k \in 1..(Len(g.replies) - 1) : g.replies[k].status = 401
           /\ IsOk(g.response[1].status)
           /\ g.response[1].result # None

\* C18: the k-th upstream call of an invocation always uses probe format k of
\* the fixed order: (1) apikey header, (2) Authorization Bearer header, (3)
\* API-Key header, all three with the file_upload/images body; (4) apikey
\* header with the body {file, filename, filetype}; (5) no authentication
\* header, the credential as the apikey query parameter, with the first body.
\* No format is skipped, repeated or reordered.
C18_FormatOrder ==
  \A i \in Started :
    LET g == requests[i]
        key == g.apiKey[1] IN
    /\ Len(g.probes) <= 5
    /\ \A k \in 1..Len(g.probes) :
         LET q == g.probes[k] IN
         /\ q.format = k
         /\ q.file = g.file[1]
         /\ k = 1 => /\ q.header = "apikey" /\ q.headerValue = key
                     /\ q.query = "" /\ q.bodyShape = "file_upload/images"
         /\ k = 2 => /\ q.header = "Authorization" /\ q.headerValue = "Bearer " \o key
                     /\ q.query = "" /\ q.bodyShape = "file_upload/images"
         /\ k = 3 => /\ q.header = "API-Key" /\ q.headerValue = key
                     /\ q.query = "" /\ q.bodyShape = "file_upload/images"
         /\ k = 4 => /\ q.header = "apikey" /\ q.headerValue = key
                     /\ q.query = "" /\ q.bodyShape = "file/filename/filetype"
         /\ k = 5 => /\ q.header = "" /\ q.headerValue = ""
                     /\ q.query = "apikey=" \o key /\ q.bodyShape = "file_upload/images"

\* an invocation that went through all five formats
C18_Witness ==
  \E i \in Started :
    /\ Len(requests[i].probes) = 5
    /\ requests[i].probes[4].bodyShape = "file/filename/filetype"
    /\ requests[i].probes[5].header = ""
    /\ requests[i].probes[5].query = "apikey=sk-1"

(***************************************************************************)
(* Properties of the progress and of termination.                          *)
(***************************************************************************)
\* the step is one of the polling callback writing progress: the batch is in
\* flight before and after it (processFiles writes progress when it starts a
\* batch and when it ends one)
PollWritesProgress == isProcessing /\ isProcessing' /\ progress' # progress

\* C19: while a batch is in flight, every value the polling callback writes to
\* progress is computed from the entries of the current batch: it is at most
\* 100 times the number of entries no longer in processing divided by the
\* number of files of the batch, also for a batch started after an earlier one.
C19_ProgressFromCurrentBatch ==
  [][ PollWritesProgress =>
        progress'.num * batch.nFiles
          <= 100 * Cardinality(NotProcessing(results')) * progress'.den
    ]_vars

\* the handler run for file i is under way: started and without a response
Running(i) == i \in 1..Len(requests) /\ requests[i].pc = "awaiting"

\* what holds when processFiles ends a batch
BatchEnd ==
  (isProcessing /\ ~isProcessing') =>
    /\ AllSettled(requests')
    /\ \A i \in 1..Len(results') : results'[i].status # "processing"
    /\ ~timer'
    /\ progress' = Percent(100)

\* a handler run ends by returning a response, and returns once: the response
\* is the one that the orchestrator's fetch settles with
OneResponse ==
  \A i \in 1..Len(requests) :
    /\ (Running(i) /\ ~Running(i)') =>
         /\ requests'[i].pc = "responded"
         /\ requests'[i].response # None
    /\ (requests[i].pc = "responded" /\ ~Dispatches) =>
         /\ i \in 1..Len(requests')
         /\ \/ requests'[i] = requests[i]
            \/ IsSettled(requests'[i])

\* C20: if every gateway request eventually returns a response or throws,
\* every batch started by processFiles eventually ends: every entry leaves
\* processing, the timer is cleared, progress is set to 100 and isProcessing
\* returns to false; and every gateway invocation whose upstream calls all
\* return or throw eventually produces exactly one response (a handler runs
\* only within a batch, and the batch ends only when every call has settled).
C20_BatchTerminates ==
  /\ isProcessing ~> ~isProcessing
  /\ [](\A i \in 1..Len(requests) : ~IsSettled(requests[i]) => isProcessing)
  /\ [][BatchEnd /\ OneResponse]_vars

\* a batch of two files that has ended, one call answered and one thrown
C20_Witness ==
  /\ ~isProcessing
  /\ Len(requests) = 2
  /\ requests[1].pc = "settled"
  /\ requests[2].pc = "rejected"
  /\ Len(results) = 2
  /\ ~timer
  /\ progress = Percent(100)

(***************************************************************************)
(* Properties of the per-file call.                                        *)
(***************************************************************************)
\* the message of a gateway response that is not 2xx, as the entry shows it
MessageOf(response) ==
  IF response.error # None /\ response.error[1] # "" THEN response.error[1]
  ELSE ProcessingFailed

\* C21: the entry of a dispatched file becomes completed if and only if the
\* gateway returned a 2xx response with a readable JSON body; a non-2xx
\* gateway response sets it to error with the gateway's message (or
\* 'Processing failed' when there is none); a thrown request or an unreadable
\* body sets it to error with 'Network error occurred'; and the call always
\* settles, whatever its outcome.
C21_OutcomeByResponse ==
  [][ /\ \A i \in Kept \cap (1..Len(requests)) :
           Settles(i) =>
             LET response == requests[i].response[1] IN
             /\ results'[i].status \in {"completed", "error"}
             /\ (requests'[i].pc = "settled" /\ IsOk(response.status)) =>
                  /\ results'[i].status = "completed"
                  /\ results'[i].data = Some(response.result[1].data)
                  /\ results'[i].extractedText = Some(response.result[1].extractedText)
                  /\ results'[i].entities = Some(response.result[1].entities)
             /\ (requests'[i].pc = "settled" /\ ~IsOk(response.status)) =>
                  /\ results'[i].status = "error"
                  /\ results'[i].error = Some(MessageOf(response))
             /\ requests'[i].pc = "rejected" =>
                  /\ results'[i].status = "error"
                  /\ results'[i].error = Some(NetworkErrorOccurred)
      /\ \A i \in Kept :
           (~Dispatches /\ results[i].status # "completed" /\ results'[i].status = "completed") =>
             /\ Settles(i)
             /\ requests'[i].pc = "settled"
             /\ requests[i].pc = "responded"
             /\ IsOk(requests[i].response[1].status)
    ]_vars

\* a batch of two: the gateway answered the first call 403, and the fetch of
\* the second was thrown
C21_Witness ==
  /\ Len(results) = 2
  /\ Len(requests) = 2
  /\ requests[1].pc = "settled"
  /\ results[1].status = "error"
  /\ results[1].error = Some(AccessForbidden)
  /\ requests[2].pc = "rejected"
  /\ results[2].status = "error"
  /\ results[2].error = Some(NetworkErrorOccurred)

(***************************************************************************)
(* Properties of the dispatch.                                             *)
(***************************************************************************)
\* results after the fetch of file i has resolved with the gateway's response
AfterResolve(rs, i) ==
  IF IsOk(requests[i].response[1].status)
  THEN SetCompleted(rs, i, requests[i].response[1].result[1])
  ELSE SetFailed(rs, i, MessageOf(requests[i].response[1]))

\* results after the fetch of file i has rejected
AfterReject(rs, i) == SetFailed(rs, i, NetworkErrorOccurred)

\* the calls of the batch in flight whose gateway response is there
Answered == { i \in 1..Len(requests) : isProcessing /\ requests[i].pc = "responded" }

\* two calls that are both about to settle give the same results in either order
C22_EitherOrder ==
  \A i \in Answered : \A j \in Answered \ {i} :
    /\ AfterResolve(AfterResolve(results, i), j) = AfterResolve(AfterResolve(results, j), i)
    /\ AfterReject(AfterResolve(results, i), j) = AfterResolve(AfterReject(results, j), i)
    /\ AfterReject(AfterReject(results, i), j) = AfterReject(AfterReject(results, j), i)

\* the dispatch: n processing entries, entry i named after file i, and n
\* requests, one per index, all issued in the step and none waited for
C22_Dispatch ==
  Dispatches =>
    /\ Len(results') = Len(files)
    /\ \A i \in 1..Len(files) : results'[i] = ProcessingEntry(files[i])
    /\ Len(requests') = Len(files)
    /\ \A i \in 1..Len(files) :
         /\ requests'[i].file = Some(files[i])
         /\ requests'[i].pc = "received"

\* the entry of a call is as processFiles created it until the call settles,
\* whatever has settled before, and then is what the call's own outcome makes
\* of it
C22_OwnOutcomeOnly ==
  \A i \in Kept \cap (1..Len(requests)) :
    Settles(i) =>
      LET created == ProcessingEntry(results[i].fileName) IN
      /\ results[i] = created
      /\ results'[i] =
           IF requests'[i].pc = "rejected" THEN Failed(created, NetworkErrorOccurred)
           ELSE IF IsOk(requests[i].response[1].status)
                THEN Completed(created, requests[i].response[1].result[1])
                ELSE Failed(created, MessageOf(requests[i].response[1]))
      /\ \A j \in 1..Len(results') : j # i => (j \in Kept /\ results'[j] = results[j])

\* C22: processFiles on n files creates exactly n processing entries, entry i
\* named after file i, and issues exactly n gateway requests, one per index,
\* without waiting for any; and for fixed outcomes of the calls, results after
\* all calls have settled is the same for every order in which they settle.
C22_DispatchAllOrderFree ==
  []C22_EitherOrder /\ [][C22_Dispatch /\ C22_OwnOutcomeOnly]_vars

\* the second call has settled before the first, which has its response and
\* is about to settle
C22_Witness ==
  /\ isProcessing
  /\ Len(requests) = 2
  /\ Len(results) = 2
  /\ requests[1].pc = "responded"
  /\ IsOk(requests[1].response[1].status)
  /\ requests[2].pc = "settled"
  /\ results[1] = ProcessingEntry(files[1])
  /\ results[2].status = "completed"

(***************************************************************************)
(* Properties of the batch.                                                *)
(***************************************************************************)
\* the calls that have not settled
Outstanding == { i \in 1..Len(requests) : ~IsSettled(requests[i]) }

\* outside a batch no call is outstanding; in a batch every outstanding call
\* is the one dispatched for the entry at its index
C23_NoneOutstanding ==
  /\ ~isProcessing => Outstanding = {}
  /\ \A i \in Outstanding \cap (1..Len(results)) :
       /\ requests[i].file = Some(results[i].fileName)
       /\ results[i].status = "processing"

\* isProcessing is reset only by the step that settles the last call; a batch
\* starts only when none is in flight, and replaces the calls and the entries
\* together; within a batch no call is added
C23_OneBatch ==
  /\ (isProcessing /\ ~isProcessing') =>
       /\ \E i \in Outstanding : Settles(i)
       /\ AllSettled(requests')
  /\ Dispatches =>
       /\ Outstanding = {}
       /\ Len(requests') = Len(results')
  /\ (isProcessing /\ isProcessing') =>
       /\ Len(requests') = Len(requests)
       /\ \A i \in 1..Len(requests) : IsSettled(requests[i]) => requests'[i] = requests[i]
  /\ \A i \in Kept :
       (results[i].status = "processing" /\ results'[i].status # "processing") =>
         (i \in Outstanding /\ Settles(i))

\* C23: in every reachable state where isProcessing is false no gateway
\* request dispatched by processFiles is outstanding: isProcessing is reset
\* only after every call of the batch has settled; at most one batch is in
\* flight, and a completion of one batch is never applied to the entries of a
\* later batch.
C23_SingleBatchInFlight == []C23_NoneOutstanding /\ [][C23_OneBatch]_vars

\* a second batch in flight, started on the results of a finished batch of two
C23_Witness ==
  /\ isProcessing
  /\ batch.nSettled = 2
  /\ Len(requests) = 2
  /\ Outstanding = {1}
  /\ requests[2].pc = "settled"
  /\ Len(results) = 2
  /\ results[1].status = "processing"

=============================================================================
